---- MODULE Spec2Model ----
(***************************************************************************)
(* Model of retwist.util.limited_deferred_list.LimitedDeferredList.        *)
(*                                                                         *)
(* The class is a Deferred that runs a list of Deferred factories with a   *)
(* bound on the number of concurrently running Deferreds.  The model keeps *)
(* the object's fields (deferred_factories, results, counter, called), the *)
(* Python call stack (a task may fire synchronously inside the factory     *)
(* call, so __deferred_callback runs re-entrantly inside                   *)
(* __schedule_deferred), and history variables that record what each task  *)
(* did.  Indices are 0-based as produced by enumerate(); slot index i of   *)
(* the results list is element i + 1 of the TLA+ sequence.                 *)
(***************************************************************************)
EXTENDS Integers, Sequences, FiniteSets, TLC

\* ---------------------------------------------------------------- bounds
MaxN == 3
MaxLimit == 3

\* Values a task can resolve with, and failures it can reject with.
Values == {"a", "b"}
Failures == {"e1", "e2"}
None == "None"

\* The concurrency limits tried, including the invalid ones (0 and -1).
Limits == (0 - 1) .. MaxLimit

VARIABLES
    n,                  \* number of factories passed to the constructor
    max_concurrent,     \* the constructor's max_concurrent argument
    deferred_factories, \* self.deferred_factories: deque of (index, factory); the index stands for the pair
    results,            \* self.results
    counter,            \* self.counter
    called,             \* self.called (Deferred)
    outcome,            \* state of the overall Deferred: "pending", "success", "failure"
    delivered,          \* the list passed to self.callback
    firstError,         \* the FirstError passed to self.errback
    settleCalls,        \* number of self.callback / self.errback invocations
    stack,              \* Python call stack of the running handler (empty: reactor idle)
    ret,                \* return value of the last __schedule_deferred call
    ctor,               \* constructor: "running", "returned", "raised"
    task,               \* per index: "unstarted", "running", "succeeded", "failed"
    produced,           \* per index: the value or failure the task settled with
    startOrder,         \* indices in the order their factories were invoked
    startedBy           \* per index: "none", "init" (constructor loop), "refill" (from __deferred_callback)

\* wait_on_shutdown (src/retwist/util/wait_on_shutdown.py)
VARIABLES
    timeout,            \* the timeout argument, in seconds
    phase,              \* reactor: "serving", "shutting_down" (shutdown() has run), "stopped"
    reqState,           \* per request created by request_factory: "new", "running", "finished"
    reqHash,            \* per request: id(req), 0 before the request exists
    running_reqs,       \* the set running_reqs of request hashes
    removeErrors,       \* number of KeyErrors raised by running_reqs.remove
    elapsed,            \* seconds since shutdown() ran
    timers,             \* pending reactor.callLater calls: [fn, due]
    timeout_called,     \* timeout_deferred.called
    timeout_calls,      \* number of timeout_deferred.callback invocations
    close_conn_called,  \* close_conn_deferred.called
    pollFoundNone,      \* kill_if_requests_done has found running_reqs empty
    atShutdown          \* the requests that were running when shutdown() ran

\* BaseParam and its subclasses (src/retwist/param.py)
VARIABLES
    pmPc,               \* "new", "constructed", "ValueError" (constructor raised), "parsed"
    pmParam,            \* the parameter object: kind, required, default, name
    pmArgs,             \* request.args: dict from argument name (bytes) to the list of its values
    pmResult            \* what parse_from_request returned or raised

\* JsonResource (src/retwist/json_resource.py)
VARIABLES
    request,            \* the Twisted request: method, args, response code, written chunks, finish() calls
    jsPc,               \* "new", "waiting" (json_def pending), "unsupported" (render raised), "done",
                        \* "fired" (json_def fired later), "cancelled" (connection lost while
                        \* waiting), "closed" (connection closed after the response)
    handlerCalls,       \* per HTTP method: number of calls of json_<METHOD>
    logged,             \* number of log_server_error calls
    handled,            \* the exception passed to handle_exception, if any
    returned,           \* the value json_<METHOD> produced, if any
    received,           \* request.args as they arrived
    connection,         \* "open" or "lost"
    cancelCalls,        \* number of json_def.cancel() calls
    closedRuns          \* number of on_connection_closed runs

\* RouteSite and PathSite (src/retwist/route_site.py, src/retwist/path_site.py)
VARIABLES
    python,             \* the interpreter the package runs on: "2.7" or "3"
    siteClass,          \* "none", "RouteSite" or "PathSite"
    routes,             \* RouteSite.routes: dict from pattern to resource, in insertion order
    paths,              \* PathSite.paths: dict from pattern to resource class, in insertion order
    lookup              \* the last getResourceFor call: request path, path_args, result

ldlVars == <<n, max_concurrent, deferred_factories, results, counter, called, outcome,
             delivered, firstError, settleCalls, stack, ret, ctor, task, produced,
             startOrder, startedBy>>

wsVars == <<timeout, phase, reqState, reqHash, running_reqs, removeErrors, elapsed, timers,
            timeout_called, timeout_calls, close_conn_called, pollFoundNone, atShutdown>>

pmVars == <<pmPc, pmParam, pmArgs, pmResult>>

connVars == <<connection, cancelCalls, closedRuns>>

jsVars == <<request, jsPc, handlerCalls, logged, handled, returned, received, connVars>>

rsVars == <<python, siteClass, routes, paths, lookup>>

\* the variables LimitedDeferredList does not touch
notLdl == <<wsVars, pmVars, jsVars, rsVars>>

\* the variables wait_on_shutdown does not touch
notWs == <<ldlVars, pmVars, jsVars, rsVars>>

\* the variables a parameter object does not touch
notPm == <<ldlVars, wsVars, jsVars, rsVars>>

\* the variables JsonResource does not touch
notJs == <<ldlVars, wsVars, pmVars, rsVars>>

\* the variables a site does not touch
notRs == <<ldlVars, wsVars, pmVars, jsVars>>

vars == <<ldlVars, wsVars, pmVars, jsVars, rsVars>>

\* ---------------------------------------------------------------- wait_on_shutdown: bounds
MaxRequests == 3
MaxLive == 2
MaxTimeout == 7
MaxElapsed == 12

\* reactor.callLater(5, kill_if_requests_done)
PollInterval == 5

Requests == 1 .. MaxRequests
Hashes == 1 .. MaxLive

\* wait_on_shutdown not installed: its variables rest
WsIdle ==
    /\ timeout = 0
    /\ phase = "serving"
    /\ reqState = [r \in Requests |-> "new"]
    /\ reqHash = [r \in Requests |-> 0]
    /\ running_reqs = {}
    /\ removeErrors = 0
    /\ elapsed = 0
    /\ timers = {}
    /\ timeout_called = FALSE
    /\ timeout_calls = 0
    /\ close_conn_called = FALSE
    /\ pollFoundNone = FALSE
    /\ atShutdown = {}

\* ---------------------------------------------------------------- parameters and requests: values
\* Python values are tagged with their type; "\\xff" stands for bytes that are not valid UTF-8
Bytes(text) == [t |-> "bytes", v |-> text]
StrV(text) == [t |-> "str", v |-> text]
BoolV(text) == [t |-> "bool", v |-> text]
NoneV == [t |-> "none", v |-> "None"]
InvalidUtf8 == {"\\xff"}

\* the dict is a function from the argument names present to their value lists
NoArgs == <<>>

NoParam == [kind |-> "none", required |-> FALSE, default |-> NoneV, name |-> NoneV]
NoResult == [kind |-> "none"]
NoException == [type |-> "none", status |-> 0, message |-> None, param |-> None]

\* JSON documents: a text, or the text of an Error ("<status> <message>", with
\* the parameter name when parse_args formatted the message)
Doc(text) == [text |-> text, status |-> 0, param |-> None]
NoDoc == Doc(None)

\* HTTP methods a request can carry
Methods == {"GET", "PUT", "POST", "PATCH", "DELETE"}

\* no parameter object is being built
PmIdle ==
    /\ pmPc = "new"
    /\ pmParam = NoParam
    /\ pmArgs = NoArgs
    /\ pmResult = NoResult

\* twisted.web.http.Request as created by the channel: code 200, nothing written
NewRequest(method, reqArgs) ==
    [method |-> method, args |-> reqArgs, code |-> 200, contentType |-> None,
     written |-> <<>>, finished |-> 0]

\* no request is being rendered
JsIdle ==
    /\ request = NewRequest("GET", NoArgs)
    /\ jsPc = "new"
    /\ handlerCalls = [m \in Methods |-> 0]
    /\ logged = 0
    /\ handled = NoException
    /\ returned = NoDoc
    /\ received = NoArgs
    /\ connection = "open"
    /\ cancelCalls = 0
    /\ closedRuns = 0

\* request.path_args: unset, a dict of named groups or a tuple of groups
Unset == [t |-> "unset", v |-> <<>>]

\* no getResourceFor call yet
NoLookup ==
    [path |-> <<>>, path_args |-> Unset, resource |-> None, route |-> <<>>, exc |-> None]

\* no site has been constructed
RsIdle ==
    /\ python = "3"
    /\ siteClass = "none"
    /\ routes = <<>>
    /\ paths = <<>>
    /\ lookup = NoLookup

obj == <<deferred_factories, results, counter>>
overall == <<called, outcome, delivered, firstError, settleCalls>>
hist == <<task, produced, startOrder, startedBy>>
args == <<n, max_concurrent>>

Indices == 0 .. (n - 1)

\* ---------------------------------------------------------------- helpers
Frame(fn, pc, index, result, i) ==
    [fn |-> fn, pc |-> pc, index |-> index, result |-> result, i |-> i]

Top == stack[Len(stack)]
Pop == SubSeq(stack, 1, Len(stack) - 1)
Caller == stack[Len(stack) - 1]

NoError == [index |-> 0 - 1, failure |-> None]

\* enumerate(deferred_factories) put into a deque: <<0, 1, ..., k-1>>
Enumerate(k) == [j \in 1 .. k |-> j - 1]

\* [None] * len(self.deferred_factories)
NoneList(k) == [j \in 1 .. k |-> None]

\* deque.pop(): removes and returns the rightmost element
DequePopped(q) == q[Len(q)]
DequeRest(q) == SubSeq(q, 1, Len(q) - 1)

\* self.results[index] = result
StoreResultAtZero(res, index, result) == [res EXCEPT ![1] = result]
StoreResult(res, index, result) == [res EXCEPT ![index + 1] = result]

\* range(max_concurrent): iteration i of the loop runs iff i < max_concurrent
LoopOneMore(i) == i <= max_concurrent
LoopOneLess(i) == i < max_concurrent - 1
LoopGuard(i) == i < max_concurrent

\* line 54: "not self.__schedule_deferred() and self.counter == 0"
AllDoneNever(scheduled, c) == scheduled /\ c = 0
AllDone(scheduled, c) == ~scheduled /\ c = 0

\* line 64: "if not self.called"
ErrbackUnguarded(c) == TRUE
ErrbackGuard(c) == ~c

\* line 65: FirstError(failure, index)
FirstErrorOfSlotZero(failure, index) == [index |-> 0, failure |-> failure]
FirstError(failure, index) == [index |-> index, failure |-> failure]

\* Deferred.callback(result) on the overall Deferred; a second call raises
\* AlreadyCalledError and leaves the result as it is.
SelfCallback(res) ==
    /\ settleCalls' = settleCalls + 1
    /\ called' = TRUE
    /\ IF called
       THEN UNCHANGED <<outcome, delivered, firstError>>
       ELSE /\ outcome' = "success"
            /\ delivered' = res
            /\ UNCHANGED firstError

\* Deferred.errback(fail) on the overall Deferred
SelfErrback(err) ==
    /\ settleCalls' = settleCalls + 1
    /\ called' = TRUE
    /\ IF called
       THEN UNCHANGED <<outcome, delivered, firstError>>
       ELSE /\ outcome' = "failure"
            /\ firstError' = err
            /\ UNCHANGED delivered

\* __deferred_errback(failure, index), lines 64-65
deferred_errback(failure, index) ==
    IF ErrbackGuard(called)
    THEN SelfErrback(FirstError(failure, index))
    ELSE UNCHANGED overall

\* ---------------------------------------------------------------- initial state
\* The state after lines 29-36 of __init__, before the start-up loop.
Init ==
    /\ n \in 0 .. MaxN
    /\ max_concurrent \in Limits
    /\ deferred_factories = Enumerate(n)
    /\ results = NoneList(n)
    /\ counter = 0
    /\ called = FALSE
    /\ outcome = "pending"
    /\ delivered = <<>>
    /\ firstError = NoError
    /\ settleCalls = 0
    /\ stack = <<Frame("init", "loop", 0, None, 0)>>
    /\ ret = FALSE
    /\ ctor = "running"
    /\ task = [j \in 0 .. (n - 1) |-> "unstarted"]
    /\ produced = [j \in 0 .. (n - 1) |-> None]
    /\ startOrder = <<>>
    /\ startedBy = [j \in 0 .. (n - 1) |-> "none"]
    /\ WsIdle
    /\ PmIdle
    /\ JsIdle
    /\ RsIdle

\* ---------------------------------------------------------------- __init__
\* lines 40-41: one iteration of "for _ in range(max_concurrent)" calls __schedule_deferred
InitLoop ==
    /\ stack # <<>>
    /\ Top.fn = "init"
    /\ LoopGuard(Top.i)
    /\ stack' = Append(Append(Pop, Frame("init", "loop", 0, None, Top.i + 1)),
                       Frame("schedule", "entry", 0, None, 0))
    /\ UNCHANGED <<args, obj, overall, ret, ctor, hist>>
    /\ UNCHANGED notLdl

\* the loop is exhausted: __init__ returns
InitReturn ==
    /\ stack # <<>>
    /\ Top.fn = "init"
    /\ ~LoopGuard(Top.i)
    /\ stack' = Pop
    /\ ctor' = "returned"
    /\ UNCHANGED <<args, obj, overall, ret, hist>>
    /\ UNCHANGED notLdl

\* ---------------------------------------------------------------- __schedule_deferred
AtScheduleEntry ==
    /\ stack # <<>>
    /\ Top.fn = "schedule"
    /\ Top.pc = "entry"

\* lines 73, 80: nothing left to schedule
ScheduleNothing ==
    /\ AtScheduleEntry
    /\ deferred_factories = <<>>
    /\ stack' = Pop
    /\ ret' = FALSE
    /\ UNCHANGED <<args, obj, overall, ctor, hist>>
    /\ UNCHANGED notLdl

\* the factory is invoked without counting it
StartFactoryNoCount(index) ==
    /\ counter' = counter
    /\ deferred_factories' = DequeRest(deferred_factories)
    /\ startOrder' = Append(startOrder, index)
    /\ startedBy' = [startedBy EXCEPT ![index] = IF Caller.fn = "init" THEN "init" ELSE "refill"]
    /\ UNCHANGED results

\* lines 74-76: the bookkeeping common to every factory invocation
StartFactory(index) ==
    /\ counter' = counter + 1
    /\ deferred_factories' = DequeRest(deferred_factories)
    /\ startOrder' = Append(startOrder, index)
    /\ startedBy' = [startedBy EXCEPT ![index] = IF Caller.fn = "init" THEN "init" ELSE "refill"]
    /\ UNCHANGED results

\* lines 73-79, the factory returns a Deferred that has not fired yet
ScheduleAsync ==
    /\ AtScheduleEntry
    /\ deferred_factories # <<>>
    /\ LET index == DequePopped(deferred_factories) IN
        /\ StartFactory(index)
        /\ task' = [task EXCEPT ![index] = "running"]
        /\ UNCHANGED produced
    /\ stack' = Pop
    /\ ret' = TRUE
    /\ UNCHANGED <<args, overall, ctor>>
    /\ UNCHANGED notLdl

\* lines 73-77, the factory returns a Deferred that already fired with a value:
\* addCallback runs __deferred_callback at once, inside __schedule_deferred
ScheduleSyncSuccess ==
    /\ AtScheduleEntry
    /\ deferred_factories # <<>>
    /\ \E v \in Values :
        LET index == DequePopped(deferred_factories) IN
        /\ StartFactory(index)
        /\ task' = [task EXCEPT ![index] = "succeeded"]
        /\ produced' = [produced EXCEPT ![index] = v]
        /\ stack' = Append(Append(Pop, Frame("schedule", "return", index, None, 0)),
                           Frame("callback", "entry", index, v, 0))
    /\ UNCHANGED <<args, overall, ret, ctor>>
    /\ UNCHANGED notLdl

\* lines 73-79, the factory returns a Deferred that already failed:
\* addErrback runs __deferred_errback at once
ScheduleSyncFailure ==
    /\ AtScheduleEntry
    /\ deferred_factories # <<>>
    /\ \E e \in Failures :
        LET index == DequePopped(deferred_factories) IN
        /\ StartFactory(index)
        /\ task' = [task EXCEPT ![index] = "failed"]
        /\ produced' = [produced EXCEPT ![index] = e]
        /\ deferred_errback(e, index)
    /\ stack' = Pop
    /\ ret' = TRUE
    /\ UNCHANGED <<args, ctor>>
    /\ UNCHANGED notLdl

\* line 79 after the re-entrant __deferred_callback has returned
ScheduleReturn ==
    /\ stack # <<>>
    /\ Top.fn = "schedule"
    /\ Top.pc = "return"
    /\ stack' = Pop
    /\ ret' = TRUE
    /\ UNCHANGED <<args, obj, overall, ctor, hist>>
    /\ UNCHANGED notLdl

\* ---------------------------------------------------------------- __deferred_callback
\* the result is recorded but __schedule_deferred is not called
CallbackEntryNoRefill ==
    /\ stack # <<>>
    /\ Top.fn = "callback"
    /\ Top.pc = "entry"
    /\ counter' = counter - 1
    /\ results' = StoreResult(results, Top.index, Top.result)
    /\ stack' = Append(Pop, Frame("callback", "scheduled", Top.index, Top.result, 0))
    /\ ret' = FALSE
    /\ UNCHANGED <<args, deferred_factories, overall, ctor, hist>>
    /\ UNCHANGED notLdl

\* lines 50-51 and the call of __schedule_deferred in line 54
CallbackEntry ==
    /\ stack # <<>>
    /\ Top.fn = "callback"
    /\ Top.pc = "entry"
    /\ counter' = counter - 1
    /\ results' = StoreResult(results, Top.index, Top.result)
    /\ stack' = Append(Append(Pop, Frame("callback", "scheduled", Top.index, Top.result, 0)),
                       Frame("schedule", "entry", 0, None, 0))
    /\ UNCHANGED <<args, deferred_factories, overall, ret, ctor, hist>>
    /\ UNCHANGED notLdl

\* lines 54-55 once __schedule_deferred has returned
CallbackFinish ==
    /\ stack # <<>>
    /\ Top.fn = "callback"
    /\ Top.pc = "scheduled"
    /\ IF AllDone(ret, counter)
       THEN SelfCallback(results)
       ELSE UNCHANGED overall
    /\ stack' = Pop
    /\ UNCHANGED <<args, obj, ret, ctor, hist>>
    /\ UNCHANGED notLdl

\* ---------------------------------------------------------------- tasks settling later
\* The reactor fires a pending task's Deferred with a value: __deferred_callback is called.
TaskSucceeds ==
    /\ stack = <<>>
    /\ \E index \in Indices, v \in Values :
        /\ task[index] = "running"
        /\ task' = [task EXCEPT ![index] = "succeeded"]
        /\ produced' = [produced EXCEPT ![index] = v]
        /\ stack' = <<Frame("callback", "entry", index, v, 0)>>
    /\ UNCHANGED <<args, obj, overall, ret, ctor, startOrder, startedBy>>
    /\ UNCHANGED notLdl

\* The reactor fires a pending task's Deferred with a failure: __deferred_errback is called.
TaskFails ==
    /\ stack = <<>>
    /\ \E index \in Indices, e \in Failures :
        /\ task[index] = "running"
        /\ task' = [task EXCEPT ![index] = "failed"]
        /\ produced' = [produced EXCEPT ![index] = e]
        /\ deferred_errback(e, index)
    /\ UNCHANGED <<args, obj, stack, ret, ctor, startOrder, startedBy>>
    /\ UNCHANGED notLdl

Next ==
    \/ InitLoop
    \/ InitReturn
    \/ ScheduleNothing
    \/ ScheduleAsync
    \/ ScheduleSyncSuccess
    \/ ScheduleSyncFailure
    \/ ScheduleReturn
    \/ CallbackEntry
    \/ CallbackFinish
    \/ TaskSucceeds
    \/ TaskFails

Spec == Init /\ [][Next]_vars

TypeOK ==
    /\ n \in 0 .. MaxN
    /\ max_concurrent \in Limits
    /\ counter \in Int
    /\ called \in BOOLEAN
    /\ outcome \in {"pending", "success", "failure"}
    /\ ctor \in {"running", "returned", "raised"}
    /\ Len(results) = n
    /\ \A j \in Indices : task[j] \in {"unstarted", "running", "succeeded", "failed"}

\* ---------------------------------------------------------------- fairness
\* A handler that has been entered runs to its end (single-threaded Python).
RunHandler ==
    \/ InitLoop
    \/ InitReturn
    \/ ScheduleNothing
    \/ ScheduleAsync
    \/ ScheduleSyncSuccess
    \/ ScheduleSyncFailure
    \/ ScheduleReturn
    \/ CallbackEntry
    \/ CallbackFinish

\* A pending task's Deferred is eventually fired by the reactor.
TaskSettles == TaskSucceeds \/ TaskFails

LiveSpec == Init /\ [][Next]_vars /\ WF_vars(RunHandler) /\ WF_vars(TaskSettles)

\* ---------------------------------------------------------------- derived notions
InFlight == Cardinality({j \in Indices : task[j] = "running"})
AllStarted == \A j \in Indices : task[j] # "unstarted"
AllSucceeded == \A j \in Indices : task[j] = "succeeded"
AnyFailed == \E j \in Indices : task[j] = "failed"
Settled(j) == task[j] \in {"succeeded", "failed"}

\* ---------------------------------------------------------------- claims

\* C1: with max_concurrent >= 1, in every reachable state the number of tasks
\* that have been started and have not yet settled is at most max_concurrent.
C1_AtMostLimitInFlight ==
    max_concurrent >= 1 => InFlight <= max_concurrent

\* more factories than the limit, a task has settled and the limit is fully used again
C1_Witness ==
    /\ max_concurrent >= 1
    /\ n > max_concurrent
    /\ InFlight = max_concurrent
    /\ \E j \in Indices : Settled(j)
    /\ \E j \in Indices : startedBy[j] = "refill"

\* C2: whenever the overall Deferred has resolved successfully, all n tasks
\* have succeeded and the delivered list has length n with element i equal to
\* the value produced by the task of input index i.
C2_OrderedResults ==
    outcome = "success" =>
        /\ AllSucceeded
        /\ Len(delivered) = n
        /\ \A j \in Indices : delivered[j + 1] = produced[j]

\* a successful run with refills whose tasks produced different values
C2_Witness ==
    /\ outcome = "success"
    /\ n >= 3
    /\ max_concurrent >= 1
    /\ n > max_concurrent
    /\ delivered[1] # delivered[2]
    /\ \E j \in Indices : startedBy[j] = "refill"

\* C3: callback/errback is invoked on the overall Deferred at most once in
\* total, and no step changes its outcome once it has settled.
C3_SettlesAtMostOnce ==
    /\ [](settleCalls <= 1)
    /\ [][outcome # "pending" =>
            /\ outcome' = outcome
            /\ delivered' = delivered
            /\ firstError' = firstError]_vars

\* the overall Deferred has failed and another task failed as well
C3_Witness ==
    /\ settleCalls = 1
    /\ outcome = "failure"
    /\ Cardinality({j \in Indices : task[j] = "failed"}) >= 2
    /\ \E j \in Indices : task[j] = "succeeded"

\* C4: a task that fails while the overall Deferred is unsettled makes it fail
\* in the same step with FirstError(that task's failure, that task's input
\* index); once it has failed, neither callback nor errback is invoked on it
\* again, so its success callbacks never run.
C4_FailFast ==
    [][/\ \A j \in Indices :
            (task[j] # "failed" /\ task'[j] = "failed" /\ ~called) =>
                /\ outcome' = "failure"
                /\ firstError' = [index |-> j, failure |-> produced'[j]]
       /\ outcome = "failure" =>
            /\ outcome' = "failure"
            /\ settleCalls' = settleCalls]_vars

\* the overall Deferred failed because of a task other than index 0, and a
\* task that was in flight at that time has succeeded since
C4_Witness ==
    /\ outcome = "failure"
    /\ firstError.index > 0
    /\ firstError.failure = produced[firstError.index]
    /\ \E j \in Indices : task[j] = "succeeded" /\ results[j + 1] # None

\* C5: an empty factory sequence (limit >= 1) leaves the overall Deferred
\* resolved with an empty list when the constructor returns.
C5_EmptyResolvesImmediately ==
    (n = 0 /\ max_concurrent >= 1 /\ ctor = "returned") =>
        (outcome = "success" /\ delivered = <<>>)

\* C6: factories are invoked strictly in input order, in the constructor's
\* batch and in every refill.
C6_StartedInInputOrder ==
    \A a, b \in DOMAIN startOrder : a < b => startOrder[a] < startOrder[b]

\* C7: once the overall Deferred has settled as failed, no further factory
\* is started.
C7_NoStartAfterFailure ==
    [][outcome = "failure" => startOrder' = startOrder]_vars

\* C8: with limit >= 1, a non-empty factory sequence and no task failing,
\* every factory is eventually started and the overall Deferred eventually
\* resolves successfully; it resolves in a step where the queue is empty and
\* the counter is zero.
C8_EventuallyResolves ==
    /\ <>(\/ n = 0
          \/ max_concurrent < 1
          \/ AnyFailed
          \/ (AllStarted /\ outcome = "success"))
    /\ [][(outcome = "pending" /\ outcome' = "success") =>
            /\ deferred_factories = <<>>
            /\ counter = 0
            /\ Top.fn = "callback"
            /\ delivered' = results]_vars

\* all tasks of a run with refills have succeeded and the overall Deferred resolved
C8_Witness ==
    /\ outcome = "success"
    /\ max_concurrent >= 1
    /\ n > max_concurrent
    /\ AllSucceeded
    /\ stack = <<>>

\* C9: a limit below 1 is reported as an argument error by the constructor,
\* which then never returns normally, and no task is started.
C9_InvalidLimitRaises ==
    max_concurrent < 1 => (ctor # "returned" /\ startOrder = <<>>)

\* C10 as stated: with n <= limit every task has been started when the
\* constructor returns, and no task is ever started by a refill.
C10_NoRefillAtAll ==
    n <= max_concurrent =>
        /\ ctor = "returned" => AllStarted
        /\ \A j \in Indices : startedBy[j] # "refill"

\* C10 amended: with n <= limit every task has been started when the
\* constructor returns, and no factory is invoked after the constructor has
\* returned (a refill can only happen during construction, when a task
\* settles synchronously).
C10_AllStartedInConstructor ==
    /\ []((n <= max_concurrent /\ ctor = "returned") => AllStarted)
    /\ [][(n <= max_concurrent /\ ctor = "returned") =>
            /\ startOrder' = startOrder
            /\ startedBy' = startedBy]_vars

\* the constructor has returned with fewer factories than the limit, one of
\* them started from a completion callback during construction, one still running
C10_Witness ==
    /\ n >= 2
    /\ n <= max_concurrent
    /\ ctor = "returned"
    /\ \E j \in Indices : startedBy[j] = "refill"
    /\ \E j \in Indices : task[j] = "running"

\* ---------------------------------------------------------------- claims C11-C13
Succeeded == {j \in Indices : task[j] = "succeeded"}
Failed == {j \in Indices : task[j] = "failed"}
Min(a, b) == IF a <= b THEN a ELSE b

\* C11: while tasks settle synchronously inside the factory call (only such
\* settlements exist before the constructor returns) the counter is never
\* negative and no factory is invoked twice; when the constructor returns
\* with all n >= 1 tasks having succeeded this way, the overall Deferred has
\* been resolved exactly once with all n results.
C11_ReentrantBookkeeping ==
    /\ [](counter >= 0)
    /\ [](\A a, b \in DOMAIN startOrder : a # b => startOrder[a] # startOrder[b])
    /\ [](settleCalls <= 1)
    /\ [][(ctor = "running" /\ ctor' = "returned" /\ n >= 1 /\ AllSucceeded) =>
            /\ outcome' = "success"
            /\ settleCalls' = 1
            /\ counter' = 0
            /\ Len(delivered') = n
            /\ \A j \in Indices : delivered'[j + 1] = produced[j]]_vars

\* the constructor has just returned after three tasks settled synchronously,
\* two of them started from inside a completion callback
C11_Witness ==
    /\ ctor = "returned"
    /\ n >= 3
    /\ max_concurrent >= 1
    /\ AllSucceeded
    /\ outcome = "success"
    /\ Cardinality({j \in Indices : startedBy[j] = "refill"}) >= 2
    /\ \E j \in Indices : startedBy[j] = "init"

\* C12: every task success handled while the queue is non-empty starts exactly
\* one factory, a success handled with an empty queue starts none, and a
\* failure starts none: __deferred_callback always calls __schedule_deferred
\* once, that call starts one factory iff the queue is non-empty, a failing
\* task's step calls nothing; hence, when no handler is running, the number of
\* started factories is min(n, max_concurrent + number of successes).
C12_OneRefillPerSuccess ==
    /\ [][(stack # <<>> /\ Top.fn = "callback" /\ Top.pc = "entry") =>
            /\ stack' # <<>>
            /\ stack'[Len(stack')].fn = "schedule"
            /\ stack'[Len(stack')].pc = "entry"
            /\ startOrder' = startOrder]_vars
    /\ [][(AtScheduleEntry /\ Caller.fn = "callback") =>
            IF deferred_factories # <<>>
            THEN /\ Len(startOrder') = Len(startOrder) + 1
                 /\ Len(deferred_factories') = Len(deferred_factories) - 1
            ELSE startOrder' = startOrder]_vars
    /\ [][(\E j \in Indices : task[j] = "running" /\ task'[j] = "failed") =>
            /\ startOrder' = startOrder
            /\ stack' = stack]_vars
    /\ []((stack = <<>> /\ max_concurrent >= 1) =>
            Len(startOrder) = Min(n, max_concurrent + Cardinality(Succeeded)))

\* no handler is running; successes refilled the queue until it was empty, a
\* later success found it empty, and a task failed without a replacement
C12_Witness ==
    /\ stack = <<>>
    /\ max_concurrent >= 1
    /\ n > max_concurrent
    /\ max_concurrent + Cardinality(Succeeded) > n
    /\ Failed # {}
    /\ \E j \in Indices : startedBy[j] = "refill"

\* C13: whenever no handler is running, the counter equals the number of
\* tasks that have been started and have not yet settled.
C13_CounterIsInFlight ==
    stack = <<>> => counter = InFlight

\* ================================================================ wait_on_shutdown
\* no LimitedDeferredList is under construction: its variables rest
LdlIdle ==
    /\ n = 0
    /\ max_concurrent = 0
    /\ deferred_factories = <<>>
    /\ results = <<>>
    /\ counter = 0
    /\ called = FALSE
    /\ outcome = "pending"
    /\ delivered = <<>>
    /\ firstError = NoError
    /\ settleCalls = 0
    /\ stack = <<>>
    /\ ret = FALSE
    /\ ctor = "returned"
    /\ task = <<>>
    /\ produced = <<>>
    /\ startOrder = <<>>
    /\ startedBy = <<>>

Timer(fn, due) == [fn |-> fn, due |-> due]

\* a callLater call is run by the reactor once its delay has passed
Due(t) == t.due <= elapsed

\* line 60: reactor.callLater(timeout, kill_timeout)
TimeoutDelayTooLong(t) == t + 1
TimeoutDelay(t) == t

\* line 70: "if not running_reqs"
PollAlwaysDone(rr) == TRUE
PollDone(rr) == rr = {}

\* line 78: DeferredList([timeout_deferred, close_conn_deferred]) fires once both have fired
ListFiredOnTimeoutAlone(tc, cc) == tc
ListFired(tc, cc) == tc /\ cc

\* the reactor stops when the Deferred returned by shutdown() fires
PhaseAfter(tc, cc) == IF ListFired(tc, cc) THEN "stopped" ELSE phase

\* timeout_deferred.callback(True), lines 59 and 72; a second call raises AlreadyCalledError
TimeoutCallback ==
    /\ timeout_called' = TRUE
    /\ timeout_calls' = timeout_calls + 1

\* lines 25-26 and 80-81: wait_on_shutdown has been installed on a serving site
WsInit ==
    /\ timeout \in 1 .. MaxTimeout
    /\ phase = "serving"
    /\ reqState = [r \in Requests |-> "new"]
    /\ reqHash = [r \in Requests |-> 0]
    /\ running_reqs = {}
    /\ removeErrors = 0
    /\ elapsed = 0
    /\ timers = {}
    /\ timeout_called = FALSE
    /\ timeout_calls = 0
    /\ close_conn_called = FALSE
    /\ pollFoundNone = FALSE
    /\ atShutdown = {}
    /\ LdlIdle
    /\ PmIdle
    /\ JsIdle
    /\ RsIdle

\* lines 28-43: the HTTP channel of an open connection creates a request; id(req)
\* differs from the id of every request object that is still alive
RequestFactory ==
    /\ phase # "stopped"
    /\ \E r \in Requests, h \in Hashes :
        /\ reqState[r] = "new"
        /\ \A q \in Requests : q < r => reqState[q] # "new"
        /\ \A q \in Requests : reqState[q] = "running" => reqHash[q] # h
        /\ reqState' = [reqState EXCEPT ![r] = "running"]
        /\ reqHash' = [reqHash EXCEPT ![r] = h]
        /\ running_reqs' = running_reqs \cup {h}
    /\ UNCHANGED <<timeout, phase, removeErrors, elapsed, timers, timeout_called,
                   timeout_calls, close_conn_called, pollFoundNone, atShutdown>>
    /\ UNCHANGED notWs

\* line 35: running_reqs.remove(req_hash)
SetRemoveKeepsEntry(rr, req_hash) == rr
SetRemove(rr, req_hash) == rr \ {req_hash}

\* lines 33-35 and 41: notifyFinish() fires (response finished or connection lost)
\* and remove_req removes the hash
RequestFinishes ==
    /\ phase # "stopped"
    /\ \E r \in Requests :
        /\ reqState[r] = "running"
        /\ reqState' = [reqState EXCEPT ![r] = "finished"]
        /\ IF reqHash[r] \in running_reqs
           THEN /\ running_reqs' = SetRemove(running_reqs, reqHash[r])
                /\ UNCHANGED removeErrors
           ELSE /\ removeErrors' = removeErrors + 1
                /\ UNCHANGED running_reqs
    /\ UNCHANGED <<timeout, phase, reqHash, elapsed, timers, timeout_called,
                   timeout_calls, close_conn_called, pollFoundNone, atShutdown>>
    /\ UNCHANGED notWs

\* lines 45-78: the reactor's "before shutdown" trigger runs shutdown(), which
\* includes the first call of kill_if_requests_done (line 76)
Shutdown ==
    /\ phase = "serving"
    /\ phase' = "shutting_down"
    /\ elapsed' = 0
    /\ close_conn_called' = FALSE
    /\ atShutdown' = {r \in Requests : reqState[r] = "running"}
    /\ IF PollDone(running_reqs)
       THEN /\ TimeoutCallback
            /\ pollFoundNone' = TRUE
            /\ timers' = {Timer("kill_timeout", TimeoutDelay(timeout))}
       ELSE /\ UNCHANGED <<timeout_called, timeout_calls, pollFoundNone>>
            /\ timers' = {Timer("kill_timeout", TimeoutDelay(timeout)),
                          Timer("kill_if_requests_done", PollInterval)}
    /\ UNCHANGED <<timeout, reqState, reqHash, running_reqs, removeErrors>>
    /\ UNCHANGED notWs

\* line 63: the Deferred returned by port.stopListening() fires
PortStopped ==
    /\ phase = "shutting_down"
    /\ ~close_conn_called
    /\ close_conn_called' = TRUE
    /\ phase' = PhaseAfter(timeout_called, TRUE)
    /\ UNCHANGED <<timeout, reqState, reqHash, running_reqs, removeErrors, elapsed, timers,
                   timeout_called, timeout_calls, pollFoundNone, atShutdown>>
    /\ UNCHANGED notWs

\* lines 56-59: the timeout timer runs kill_timeout
KillTimeout ==
    /\ phase = "shutting_down"
    /\ \E t \in timers :
        /\ t.fn = "kill_timeout"
        /\ Due(t)
        /\ timers' = timers \ {t}
    /\ TimeoutCallback
    /\ phase' = PhaseAfter(TRUE, close_conn_called)
    /\ UNCHANGED <<timeout, reqState, reqHash, running_reqs, removeErrors, elapsed,
                   close_conn_called, pollFoundNone, atShutdown>>
    /\ UNCHANGED notWs

\* lines 65-75: the poll timer runs kill_if_requests_done
KillIfRequestsDone ==
    /\ phase = "shutting_down"
    /\ \E t \in timers :
        /\ t.fn = "kill_if_requests_done"
        /\ Due(t)
        /\ IF PollDone(running_reqs)
           THEN /\ TimeoutCallback
                /\ pollFoundNone' = TRUE
                /\ timers' = timers \ {t}
                /\ phase' = PhaseAfter(TRUE, close_conn_called)
           ELSE /\ timers' = (timers \ {t}) \cup {Timer("kill_if_requests_done", elapsed + PollInterval)}
                /\ UNCHANGED <<timeout_called, timeout_calls, pollFoundNone, phase>>
    /\ UNCHANGED <<timeout, reqState, reqHash, running_reqs, removeErrors, elapsed,
                   close_conn_called, atShutdown>>
    /\ UNCHANGED notWs

\* a second passes; the reactor runs every call that is due before time moves on
Tick ==
    /\ phase = "shutting_down"
    /\ elapsed < MaxElapsed
    /\ \A t \in timers : ~Due(t)
    /\ elapsed' = elapsed + 1
    /\ UNCHANGED <<timeout, phase, reqState, reqHash, running_reqs, removeErrors, timers,
                   timeout_called, timeout_calls, close_conn_called, pollFoundNone, atShutdown>>
    /\ UNCHANGED notWs

WsNext ==
    \/ RequestFactory
    \/ RequestFinishes
    \/ Shutdown
    \/ PortStopped
    \/ KillTimeout
    \/ KillIfRequestsDone
    \/ Tick

WsSpec == WsInit /\ [][WsNext]_vars

\* ---------------------------------------------------------------- claims C14-C15

\* C14 as stated: the Deferred returned by shutdown() fires only when the
\* port's stopListening Deferred has fired and either a poll found no tracked
\* request or the timeout has elapsed, and never while a tracked request is
\* running and the timeout has not elapsed.
C14_NeverFiresWhileRequestsRun ==
    [][(phase # "stopped" /\ phase' = "stopped") =>
        /\ close_conn_called'
        /\ pollFoundNone' \/ elapsed' >= timeout
        /\ ~(running_reqs' # {} /\ elapsed' < timeout)]_vars

\* C14 amended: ... and never while a request that was already running when
\* shutdown() ran is still running and the timeout has not elapsed (a request
\* created on an open connection after the poll found none can still be
\* running).
C14_FiresAfterDrainOrTimeout ==
    [][(phase # "stopped" /\ phase' = "stopped") =>
        /\ close_conn_called'
        /\ pollFoundNone' \/ elapsed' >= timeout
        /\ ~(/\ elapsed' < timeout
             /\ \E r \in atShutdown' : reqState'[r] = "running")]_vars

\* the reactor stopped before the timeout because a later poll found that the
\* requests running at shutdown had finished
C14_Witness ==
    /\ phase = "stopped"
    /\ atShutdown # {}
    /\ pollFoundNone
    /\ elapsed >= PollInterval
    /\ elapsed < timeout
    /\ close_conn_called
    /\ timeout_calls = 1

\* C15: once shutdown() has run, timeout_deferred has fired whenever more than
\* timeout seconds have passed, also when tracked requests are still running.
C15_ForcedAfterTimeout ==
    (phase # "serving" /\ elapsed > timeout) => timeout_called

\* the timeout has passed with a request still running and no poll having
\* found the set empty: kill_timeout fired the Deferred
C15_Witness ==
    /\ phase # "serving"
    /\ elapsed > timeout
    /\ running_reqs # {}
    /\ ~pollFoundNone
    /\ timeout_called
    /\ \E r \in atShutdown : reqState[r] = "running"

\* ================================================================ BaseParam, Param, BoolParam
MaxValues == 2

\* twisted.web.http.BAD_REQUEST
BAD_REQUEST == 400

ParamKinds == {"Param", "BoolParam"}
Defaults == {NoneV, StrV(""), StrV("dflt")}
RawValues == {Bytes("true"), Bytes("false"), Bytes("x"), Bytes("\\xff")}

\* the value lists Twisted can hold for one argument name ("name=" gives an empty list here)
ValueLists == UNION {[1 .. k -> RawValues] : k \in 0 .. MaxValues}

\* request.args with the argument "id" absent or present
ArgDicts == {NoArgs} \cup {[key \in {Bytes("id")} |-> l] : l \in ValueLists}

Return(value) == [kind |-> "return", value |-> value]
Raise(exc) == [kind |-> "raise", exc |-> exc]

\* twisted.web.error.Error(code, message)
Error(status, message) == [type |-> "Error", status |-> status, message |-> message, param |-> None]
\* any other exception class
Exception(type, message) == [type |-> type, status |-> 0, message |-> message, param |-> None]

\* Python truthiness of a default: None and "" are false
Truthy(value) == value # NoneV /\ value # StrV("")

\* name.encode(self.encoding)
Encode(name) == Bytes(name)

\* line 37: "if required and default: raise ValueError"
CtorRejects(required, default) == required /\ Truthy(default)

\* Param.parse (lines 78-85) and BoolParam.parse (lines 93-99)
Parse(param, val) ==
    IF param.kind = "Param"
    THEN IF val.v \in InvalidUtf8
         THEN Raise(Exception("UnicodeDecodeError", "invalid start byte"))
         ELSE Return(StrV(val.v))
    ELSE IF val = Bytes("false")
         THEN Return(BoolV("False"))
         ELSE IF val = Bytes("true")
              THEN Return(BoolV("True"))
              ELSE Raise(Error(BAD_REQUEST, "Boolean parameter must be 'true' or 'false'"))

\* the default is returned only when it is truthy
ParseFromRequestTruthyDefault(param, name, reqArgs) ==
    LET name_bytes == Encode(name) IN
    IF name_bytes \notin DOMAIN reqArgs
    THEN IF Truthy(param.default)
         THEN Return(param.default)
         ELSE IF param.required
              THEN Raise(Error(BAD_REQUEST, "Required"))
              ELSE Return(NoneV)
    ELSE IF Len(reqArgs[name_bytes]) # 1
         THEN Raise(Error(BAD_REQUEST, "Pass exactly one argument"))
         ELSE Parse(param, reqArgs[name_bytes][1])

\* BaseParam.parse_from_request, lines 52-65
ParseFromRequest(param, name, reqArgs) ==
    LET name_bytes == Encode(name) IN
    IF name_bytes \notin DOMAIN reqArgs
    THEN IF param.default # NoneV
         THEN Return(param.default)
         ELSE IF param.required
              THEN Raise(Error(BAD_REQUEST, "Required"))
              ELSE Return(NoneV)
    ELSE IF Len(reqArgs[name_bytes]) # 1
         THEN Raise(Error(BAD_REQUEST, "Pass exactly one argument"))
         ELSE Parse(param, reqArgs[name_bytes][1])

\* value lists of the arguments "id" and "show_details"
IdLists == {<<>>, <<Bytes("x")>>, <<Bytes("\\xff")>>, <<Bytes("x"), Bytes("x")>>}
ShowDetailsLists == {<<>>, <<Bytes("false")>>, <<Bytes("x")>>}

\* ParamResource.ERROR_MSG % (name.encode(), ex.message), src/retwist/param_resource.py:42-43
ParamError(status, name, message) ==
    [type |-> "Error", status |-> status, message |-> message, param |-> name]

\* args[name] = val
DictWith(dict, name, val) ==
    [key \in DOMAIN dict \cup {name} |-> IF key = name THEN val ELSE dict[key]]

\* src/retwist/param_resource.py:33-37: the attribute name, or the parameter's
\* name override when it is set
ParamNameIgnoringOverride(decl) == decl.attr
ParamName(decl) == IF decl.param.name # NoneV THEN decl.param.name.v ELSE decl.attr

\* ParamResource.parse_args, src/retwist/param_resource.py:32-46
RECURSIVE ParseArgsFrom(_, _, _, _)
ParseArgsFrom(declared, i, reqArgs, acc) ==
    IF i > Len(declared)
    THEN Return(acc)
    ELSE LET param == declared[i].param
             name == ParamName(declared[i])
             res == ParseFromRequest(param, name, reqArgs)
         IN  IF res.kind = "raise"
             THEN IF res.exc.type = "Error"
                  THEN Raise(ParamError(res.exc.status, name, res.exc.message))
                  ELSE res
             ELSE ParseArgsFrom(declared, i + 1, reqArgs, DictWith(acc, name, res.value))

ParseArgs(declared, reqArgs) == ParseArgsFrom(declared, 1, reqArgs, <<>>)

PmInit ==
    /\ PmIdle
    /\ LdlIdle
    /\ WsIdle
    /\ JsIdle
    /\ RsIdle

\* BaseParam.__init__, lines 37-42
Construct ==
    /\ pmPc = "new"
    /\ \E kind \in ParamKinds, required \in BOOLEAN, default \in Defaults :
        IF CtorRejects(required, default)
        THEN /\ pmPc' = "ValueError"
             /\ UNCHANGED pmParam
        ELSE /\ pmPc' = "constructed"
             /\ pmParam' = [kind |-> kind, required |-> required, default |-> default,
                            name |-> NoneV]
    /\ UNCHANGED <<pmArgs, pmResult>>
    /\ UNCHANGED notPm

\* param.parse_from_request("id", request) for some request
ParseFromRequestCall ==
    /\ pmPc \in {"constructed", "parsed"}
    /\ \E a \in ArgDicts :
        /\ pmArgs' = a
        /\ pmResult' = ParseFromRequest(pmParam, "id", a)
    /\ pmPc' = "parsed"
    /\ UNCHANGED pmParam
    /\ UNCHANGED notPm

\* src/tests/test_param_resource.py:8-13, DemoPage in the order of
\* inspect.getmembers (sorted by attribute name)
DemoPage ==
    <<[attr |-> "def_param",
       param |-> [kind |-> "BoolParam", required |-> FALSE, default |-> NoneV, name |-> StrV("def")]],
      [attr |-> "id",
       param |-> [kind |-> "Param", required |-> TRUE, default |-> NoneV, name |-> NoneV]],
      [attr |-> "show_details",
       param |-> [kind |-> "BoolParam", required |-> FALSE, default |-> NoneV, name |-> NoneV]]>>

DefLists == {<<>>, <<Bytes("true")>>, <<Bytes("x")>>}

\* request.args of a request to DemoPage: a name is a key iff it occurs
DemoArgsOf(defs, ids, shows) ==
    LET keys == (IF defs = <<>> THEN {} ELSE {Bytes("def")})
                \cup (IF ids = <<>> THEN {} ELSE {Bytes("id")})
                \cup (IF shows = <<>> THEN {} ELSE {Bytes("show_details")})
    IN  [key \in keys |-> IF key = Bytes("def") THEN defs
                          ELSE IF key = Bytes("id") THEN ids
                          ELSE shows]

DemoArgDicts == {DemoArgsOf(defs, ids, shows) : defs \in DefLists, ids \in IdLists,
                                                shows \in ShowDetailsLists}

\* DemoPage().parse_args(request) for some request
ParseArgsCall ==
    /\ pmPc = "new"
    /\ \E a \in DemoArgDicts :
        /\ pmArgs' = a
        /\ pmResult' = ParseArgs(DemoPage, a)
    /\ pmPc' = "args_parsed"
    /\ UNCHANGED pmParam
    /\ UNCHANGED notPm

PmNext ==
    \/ Construct
    \/ ParseFromRequestCall
    \/ ParseArgsCall

PmSpec == PmInit /\ [][PmNext]_vars

\* ---------------------------------------------------------------- claim C20
IsBadRequest(result) ==
    /\ result.kind = "raise"
    /\ result.exc.type = "Error"
    /\ result.exc.status = 400

\* C20: parse_from_request follows the decision table: parameter absent ->
\* the default if it is not None, otherwise a 400 Error if required, otherwise
\* None; present with zero or several values -> 400 Error; present with
\* exactly one value -> parse(value).
C20_DecisionTable ==
    pmPc = "parsed" =>
        LET key == Bytes("id")
            absent == key \notin DOMAIN pmArgs
        IN  /\ (absent /\ pmParam.default # NoneV) =>
                    (pmResult.kind = "return" /\ pmResult.value = pmParam.default)
            /\ (absent /\ pmParam.default = NoneV /\ pmParam.required) =>
                    IsBadRequest(pmResult)
            /\ (absent /\ pmParam.default = NoneV /\ ~pmParam.required) =>
                    (pmResult.kind = "return" /\ pmResult.value = NoneV)
            /\ (~absent /\ Len(pmArgs[key]) # 1) =>
                    IsBadRequest(pmResult)
            /\ (~absent /\ Len(pmArgs[key]) = 1) =>
                    pmResult = Parse(pmParam, pmArgs[key][1])

\* an absent argument of a parameter whose default is the empty string
C20_Witness ==
    /\ pmPc = "parsed"
    /\ Bytes("id") \notin DOMAIN pmArgs
    /\ pmParam.default = StrV("")
    /\ pmResult.kind = "return"
    /\ pmResult.value = StrV("")

\* ================================================================ JsonResource
MaxCallbackLen == 2

\* twisted.web.http.INTERNAL_SERVER_ERROR
INTERNAL_SERVER_ERROR == 500

\* characters a callback argument is made of here: a letter, a dot, a
\* parenthesis and a newline
CallbackChars == {"a", ".", "(", "\n"}

\* line 37: the character class [_a-zA-Z0-9\.$]
IsCallbackChar(c) == c \in {"_", "a", "Z", "0", ".", "$"}

\* line 37: re.compile(b"^[_a-zA-Z0-9\.$]+$").match(callback); "$" matches at
\* the end of the bytes and also just before a newline that ends them
JsonpCallbackMatch(chars) ==
    LET k == Len(chars)
        body == IF k >= 1 /\ chars[k] = "\n" THEN SubSeq(chars, 1, k - 1) ELSE chars
    IN  /\ Len(body) >= 1
        /\ \A i \in 1 .. Len(body) : IsCallbackChar(body[i])

Callbacks == {Bytes(cs) : cs \in UNION {[1 .. k -> CallbackChars] : k \in 0 .. MaxCallbackLen}}

CallbackLists == {<<>>} \cup {<<c>> : c \in Callbacks} \cup {<<Bytes(<<"a">>), Bytes(<<"a">>)>>}

\* request.args built from the query string: a name is a key iff it occurs
ArgsOf(ids, shows, cbs) ==
    LET keys == (IF ids = <<>> THEN {} ELSE {Bytes("id")})
                \cup (IF shows = <<>> THEN {} ELSE {Bytes("show_details")})
                \cup (IF cbs = <<>> THEN {} ELSE {Bytes("callback")})
    IN  [key \in keys |-> IF key = Bytes("id") THEN ids
                          ELSE IF key = Bytes("show_details") THEN shows
                          ELSE cbs]

JsArgDicts == {ArgsOf(ids, shows, cbs) : ids \in IdLists, shows \in ShowDetailsLists,
                                         cbs \in CallbackLists}

\* the parameters of the resource, in the order of inspect.getmembers (by name):
\* id = Param(required=True), show_details = BoolParam()
Declared ==
    <<[attr |-> "id",
       param |-> [kind |-> "Param", required |-> TRUE, default |-> NoneV, name |-> NoneV]],
      [attr |-> "show_details",
       param |-> [kind |-> "BoolParam", required |-> FALSE, default |-> NoneV, name |-> NoneV]]>>

\* what json_<METHOD> can return, raise or fail with
HandlerValues == {Doc("All working"), Doc("url_args")}
ConnectionErrors == {"CancelledError", "ConnectError", "ConnectionDone", "ConnectionLost"}
HandlerExceptions ==
    {Exception(t, "connection") : t \in ConnectionErrors}
    \cup {Error(400, "bad"), Error(404, "not found"), Error(302, "moved"), Error(500, "broken")}
    \cup {Exception("TypeError", "unsupported operand")}

\* str(exception): "<status> <message>" for a twisted.web Error
StrOf(e) == [text |-> e.message, status |-> e.status, param |-> e.param]

\* chunks passed to request.write
OpenChunk(callback) == [kind |-> "open", callback |-> callback, doc |-> NoDoc]
JsonChunk(doc) == [kind |-> "json", callback |-> Bytes(<<>>), doc |-> doc]
CloseChunk == [kind |-> "close", callback |-> Bytes(<<>>), doc |-> NoDoc]

\* request.args.get(b"callback", [])
CallbackArgs(reqArgs) ==
    IF Bytes("callback") \in DOMAIN reqArgs THEN reqArgs[Bytes("callback")] ELSE <<>>

\* del request.args[b"callback"]
DelCallback(req) ==
    [req EXCEPT !.args = [key \in (DOMAIN req.args) \ {Bytes("callback")} |-> req.args[key]]]

\* line 104: the default response_envelope
ResponseEnvelope(response, status_code) == response

\* lines 123-134 when is_jsonp is false
SendPlainWithoutFinish(req, response, status_code) ==
    [req EXCEPT !.contentType = "application/json",
                !.code = status_code,
                !.written = Append(req.written, JsonChunk(ResponseEnvelope(response, status_code)))]
SendPlain(req, response, status_code) ==
    [req EXCEPT !.contentType = "application/json",
                !.code = status_code,
                !.written = Append(req.written, JsonChunk(ResponseEnvelope(response, status_code))),
                !.finished = req.finished + 1]

\* JsonResource.send_json_response, lines 115-134
SendJsonResponseSettingCode(req, response, status_code) ==
    LET cbs == CallbackArgs(req.args)
        is_jsonp == Len(cbs) = 1
    IN  IF is_jsonp
        THEN IF ~JsonpCallbackMatch(cbs[1].v)
             THEN SendPlain(DelCallback(req), Doc("Invalid callback"), BAD_REQUEST)
             ELSE [req EXCEPT !.contentType = "application/javascript",
                              !.code = status_code,
                              !.written = req.written \o
                                  <<OpenChunk(cbs[1]),
                                    JsonChunk(ResponseEnvelope(response, status_code)),
                                    CloseChunk>>,
                              !.finished = req.finished + 1]
        ELSE SendPlain(req, response, status_code)
SendJsonResponse(req, response, status_code) ==
    LET cbs == CallbackArgs(req.args)
        is_jsonp == Len(cbs) = 1
    IN  IF is_jsonp
        THEN IF ~JsonpCallbackMatch(cbs[1].v)
             THEN SendPlain(DelCallback(req), Doc("Invalid callback"), BAD_REQUEST)
             ELSE [req EXCEPT !.contentType = "application/javascript",
                              !.written = req.written \o
                                  <<OpenChunk(cbs[1]),
                                    JsonChunk(ResponseEnvelope(response, status_code)),
                                    CloseChunk>>,
                              !.finished = req.finished + 1]
        ELSE SendPlain(req, response, status_code)

\* JsonResource.send_error, line 201
SendError(req, status_code, message) == SendJsonResponse(req, message, status_code)

\* lines 174-176
IsConnectionError(e) == e.type \in ConnectionErrors

\* line 183: "400 <= status_code < 500"
IsClientErrorNoUpperBound(status_code) == 400 <= status_code
IsClientErrorAbove400(status_code) == 400 < status_code /\ status_code < 500
IsClientError(status_code) == 400 <= status_code /\ status_code < 500

\* JsonResource.handle_exception, lines 174-191: the request and the log count afterwards
HandleException(req, log, e) ==
    IF IsConnectionError(e)
    THEN [req |-> req, logged |-> log]
    ELSE IF e.type = "Error" /\ IsClientError(e.status)
         THEN [req |-> SendError(req, e.status, StrOf(e)), logged |-> log]
         ELSE [req |-> SendError(req, INTERNAL_SERVER_ERROR, Doc("Server-side error")),
               logged |-> log + 1]

\* line 71: Resource.render dispatches to render_<METHOD>; JsonResource has render_GET only
RenderMethods == {"GET"}

JsInit ==
    /\ \E m \in Methods, a \in JsArgDicts :
        /\ request = NewRequest(m, a)
        /\ received = a
    /\ jsPc = "new"
    /\ handlerCalls = [m \in Methods |-> 0]
    /\ logged = 0
    /\ handled = NoException
    /\ returned = NoDoc
    /\ connection = "open"
    /\ cancelCalls = 0
    /\ closedRuns = 0
    /\ LdlIdle
    /\ WsIdle
    /\ PmIdle
    /\ RsIdle

\* the state after handle_exception(e, request)
Handle(e) ==
    LET after == HandleException(request, logged, e) IN
    /\ request' = after.req
    /\ logged' = after.logged
    /\ handled' = e

\* render, lines 65-69: parse_args raises
RenderParamError ==
    /\ jsPc = "new"
    /\ LET parsed == ParseArgs(Declared, request.args) IN
        /\ parsed.kind = "raise"
        /\ Handle(parsed.exc)
    /\ jsPc' = "done"
    /\ UNCHANGED <<handlerCalls, returned, received>>
    /\ UNCHANGED connVars
    /\ UNCHANGED notJs

\* render, lines 65-71: Resource.render finds no render_<METHOD> and raises UnsupportedMethod
RenderUnsupported ==
    /\ jsPc = "new"
    /\ ParseArgs(Declared, request.args).kind = "return"
    /\ request.method \notin RenderMethods
    /\ jsPc' = "unsupported"
    /\ UNCHANGED <<request, handlerCalls, logged, handled, returned, received>>
    /\ UNCHANGED connVars
    /\ UNCHANGED notJs

RenderGet ==
    /\ jsPc = "new"
    /\ ParseArgs(Declared, request.args).kind = "return"
    /\ request.method \in RenderMethods
    /\ handlerCalls' = [handlerCalls EXCEPT !["GET"] = handlerCalls["GET"] + 1]

\* render_GET, lines 85-87: json_GET returns a value
RenderReturns ==
    /\ RenderGet
    /\ \E v \in HandlerValues :
        /\ returned' = v
        /\ request' = SendJsonResponse(request, v, 200)
    /\ jsPc' = "done"
    /\ UNCHANGED <<logged, handled, received>>
    /\ UNCHANGED connVars
    /\ UNCHANGED notJs

\* render_GET, lines 85-88: json_GET raises; maybeDeferred turns it into a failure
RenderRaises ==
    /\ RenderGet
    /\ \E e \in HandlerExceptions : Handle(e)
    /\ jsPc' = "done"
    /\ UNCHANGED <<returned, received>>
    /\ UNCHANGED connVars
    /\ UNCHANGED notJs

\* render_GET, lines 85-93: json_GET returns a Deferred that has not fired
RenderDeferred ==
    /\ RenderGet
    /\ jsPc' = "waiting"
    /\ UNCHANGED <<request, logged, handled, returned, received>>
    /\ UNCHANGED connVars
    /\ UNCHANGED notJs

\* line 87: json_def fires with a value
DeferredFires ==
    /\ jsPc = "waiting"
    /\ \E v \in HandlerValues :
        /\ returned' = v
        /\ request' = SendJsonResponse(request, v, 200)
    /\ jsPc' = "fired"
    /\ UNCHANGED <<handlerCalls, logged, handled, received>>
    /\ UNCHANGED connVars
    /\ UNCHANGED notJs

\* line 88: json_def fails
DeferredFails ==
    /\ jsPc = "waiting"
    /\ \E e \in HandlerExceptions : Handle(e)
    /\ jsPc' = "fired"
    /\ UNCHANGED <<handlerCalls, returned, received>>
    /\ UNCHANGED connVars
    /\ UNCHANGED notJs

\* what json_def.cancel() makes of a Deferred that has not fired: without a
\* canceller, or with one that does not fire it, it fails with CancelledError;
\* a canceller (or a coroutine that catches the CancelledError) can fire it
\* with another failure or with a value
CancelFailures == {Exception("CancelledError", "connection")} \cup HandlerExceptions

\* lines 91 and 203-210: the connection is lost while json_def is pending; the
\* Deferred of notifyFinish fails, on_connection_closed cancels json_def, and
\* json_def's callback or errback (lines 87-88) runs with the outcome
ConnectionLostWhileWaiting ==
    /\ jsPc = "waiting"
    /\ connection = "open"
    /\ connection' = "lost"
    /\ closedRuns' = closedRuns + 1
    /\ cancelCalls' = cancelCalls + 1
    /\ \/ /\ \E e \in CancelFailures : Handle(e)
          /\ UNCHANGED returned
       \/ /\ \E v \in HandlerValues :
               /\ returned' = v
               /\ request' = SendJsonResponse(request, v, 200)
          /\ UNCHANGED <<logged, handled>>
    /\ jsPc' = "cancelled"
    /\ UNCHANGED <<handlerCalls, received>>
    /\ UNCHANGED notJs

\* the connection closes after request.finish(): the Deferred of notifyFinish
\* has fired with a result or was requested after finish(), so its errback
\* on_connection_closed does not run
ConnectionClosedAfterFinish ==
    /\ jsPc \in {"done", "fired"}
    /\ request.finished >= 1
    /\ connection = "open"
    /\ connection' = "lost"
    /\ jsPc' = "closed"
    /\ UNCHANGED <<request, handlerCalls, logged, handled, returned, received,
                   cancelCalls, closedRuns>>
    /\ UNCHANGED notJs

JsNext ==
    \/ ConnectionLostWhileWaiting
    \/ ConnectionClosedAfterFinish
    \/ RenderParamError
    \/ RenderUnsupported
    \/ RenderReturns
    \/ RenderRaises
    \/ RenderDeferred
    \/ DeferredFires
    \/ DeferredFails

JsSpec == JsInit /\ [][JsNext]_vars

\* the response or the exception has been dealt with, inside render ("done")
\* or in a later reactor turn when the handler's Deferred fired ("fired")
Answered == jsPc \in {"done", "fired"}

\* the JSON document was written to the request
Sent(doc) == \E i \in 1 .. Len(request.written) : request.written[i] = JsonChunk(doc)

\* the one callback argument the request arrived with, if it had exactly one
OneCallback == Len(CallbackArgs(received)) = 1
TheCallback == CallbackArgs(received)[1]

\* what the client gets when status_code and doc are passed to send_error
ErrorAnswer(status_code, doc) ==
    IF ~OneCallback
    THEN /\ request.code = status_code
         /\ request.written = <<JsonChunk(doc)>>
    ELSE IF JsonpCallbackMatch(TheCallback.v)
         THEN /\ request.code = 200
              /\ request.written = <<OpenChunk(TheCallback), JsonChunk(doc), CloseChunk>>
         ELSE /\ request.code = BAD_REQUEST
              /\ request.written = <<JsonChunk(Doc("Invalid callback"))>>

IsHandledConnectionError ==
    handled.type \in {"CancelledError", "ConnectError", "ConnectionDone", "ConnectionLost"}
IsHandledClientError ==
    handled.type = "Error" /\ handled.status >= 400 /\ handled.status <= 499

\* C16 as stated: handle_exception has one of three outcomes: a connection
\* error writes and logs nothing; an Error with a status in 400..499 sends
\* that status and the error's text and logs nothing; anything else is logged
\* and sends status 500 with "Server-side error", never the exception's text.
C16_ThreeOutcomes ==
    Answered /\ handled # NoException =>
        IF IsHandledConnectionError
        THEN request.written = <<>> /\ logged = 0
        ELSE IF IsHandledClientError
             THEN /\ logged = 0
                  /\ request.code = handled.status
                  /\ Sent(StrOf(handled))
             ELSE /\ logged = 1
                  /\ request.code = INTERNAL_SERVER_ERROR
                  /\ Sent(Doc("Server-side error"))
                  /\ ~Sent(StrOf(handled))

\* C16 amended: the classification and the logging are as stated, and the
\* status and text are what handle_exception passes to send_error; they are
\* the response code and the JSON body when the request does not carry exactly
\* one callback argument; with one valid callback the text is wrapped in the
\* callback and the response code stays 200; with one invalid callback the
\* answer is 400 "Invalid callback".
C16_ClassifiedOutcomes ==
    Answered /\ handled # NoException =>
        IF IsHandledConnectionError
        THEN request.written = <<>> /\ request.finished = 0 /\ logged = 0
        ELSE IF IsHandledClientError
             THEN /\ logged = 0
                  /\ ErrorAnswer(handled.status, StrOf(handled))
             ELSE /\ logged = 1
                  /\ ErrorAnswer(INTERNAL_SERVER_ERROR, Doc("Server-side error"))
                  /\ ~Sent(StrOf(handled))

\* a 404 Error raised for a request with one valid callback: wrapped, code 200
C16_Witness ==
    /\ Answered
    /\ handled = Error(404, "not found")
    /\ OneCallback
    /\ request.code = 200
    /\ request.written = <<OpenChunk(TheCallback), JsonChunk(StrOf(handled)), CloseChunk>>
    /\ logged = 0

ParseOutcome == ParseArgs(Declared, received)
NoHandlerCalled == \A m \in Methods : handlerCalls[m] = 0

\* C17 as stated: when parsing a declared parameter fails the request is
\* answered with status 400 and a JSON body, and no handler is invoked.
C17_ParamErrorIs400 ==
    Answered /\ ParseOutcome.kind = "raise" =>
        /\ request.code = BAD_REQUEST
        /\ \E i \in 1 .. Len(request.written) : request.written[i].kind = "json"
        /\ NoHandlerCalled

\* C17 amended: when parsing a declared parameter raises an Error, its status
\* (400 for the parameters of this package) and its text are passed to
\* send_error; when it raises anything else (an undecodable value), 500 and
\* "Server-side error" are, and the error is logged. The response code is that
\* status and the body that JSON text unless the request carries exactly one
\* callback argument. In each case exactly one JSON document is written, the
\* request is finished and no handler is invoked.
C17_ParamErrorAnswered ==
    Answered /\ ParseOutcome.kind = "raise" =>
        /\ handled = ParseOutcome.exc
        /\ IF handled.type = "Error"
           THEN handled.status = BAD_REQUEST /\ ErrorAnswer(BAD_REQUEST, StrOf(handled))
           ELSE logged = 1 /\ ErrorAnswer(INTERNAL_SERVER_ERROR, Doc("Server-side error"))
        /\ Cardinality({i \in 1 .. Len(request.written) : request.written[i].kind = "json"}) = 1
        /\ request.finished = 1
        /\ NoHandlerCalled

\* the required id is missing and the request has no callback: 400 with the text
C17_Witness ==
    /\ Answered
    /\ ParseOutcome.kind = "raise"
    /\ handled = ParamError(BAD_REQUEST, "id", handled.message)
    /\ ~OneCallback
    /\ request.code = BAD_REQUEST
    /\ request.written = <<JsonChunk(StrOf(handled))>>
    /\ NoHandlerCalled

OnlyCallbackChars(chars) == \A i \in 1 .. Len(chars) : IsCallbackChar(chars[i])

\* C18: when a handler's value is sent for a request with exactly one callback
\* argument, then if the callback is made only of characters in [_a-zA-Z0-9.$]
\* the written body is callback, "(", the JSON document, ")", and if it has any
\* other character the status is 400 and the callback is written nowhere.
C18_JsonpBody ==
    Answered /\ returned # NoDoc /\ OneCallback /\ Len(TheCallback.v) >= 1 =>
        IF OnlyCallbackChars(TheCallback.v)
        THEN request.written = <<OpenChunk(TheCallback), JsonChunk(returned), CloseChunk>>
        ELSE /\ request.code = BAD_REQUEST
             /\ \A i \in 1 .. Len(request.written) : request.written[i].callback # TheCallback

\* C19: rendering a request of any of the five methods whose parameters parse,
\* on a resource whose json_<METHOD> returns a value, calls that handler once
\* and sends the value it returned as the JSON response.
C19_HandlerValueSent ==
    /\ jsPc \in {"done", "fired", "unsupported"}
    /\ ParseOutcome.kind = "return"
    /\ handled = NoException
    => /\ handlerCalls[request.method] = 1
       /\ returned # NoDoc
       /\ Sent(returned)

\* ---------------------------------------------------------------- claim C21
\* C21: a parameter constructed with required=True together with a default
\* other than None raises ValueError, so no constructed parameter is both
\* required and has a default other than None.
C21_RequiredDefaultRaises ==
    pmPc \in {"constructed", "parsed"} =>
        ~(pmParam.required /\ pmParam.default # NoneV)

\* ---------------------------------------------------------------- claim C22
\* the key of each parameter of DemoPage: the attribute name, "def" for def_param
DemoKeys == <<"def", "id", "show_details">>
DemoKeySet == {DemoKeys[i] : i \in 1 .. Len(DemoKeys)}

\* what each parameter of DemoPage makes of the request on its own
DemoOutcome(i) == ParseFromRequest(DemoPage[i].param, DemoKeys[i], pmArgs)
DemoFailing == {i \in 1 .. Len(DemoPage) : DemoOutcome(i).kind = "raise"}
DemoFirstFailing == CHOOSE i \in DemoFailing : \A j \in DemoFailing : i <= j

MaxPathLen == 3

\* the interpreters of setup.py's classifiers: 2.7, and 3.6 to 3.8
Pythons == {"2.7", "3"}

\* characters of request paths
PathChars == {"/", "h", "i"}

\* request.path: starts with "/"
RequestPaths ==
    {p \in UNION {[1 .. k -> PathChars] : k \in 1 .. MaxPathLen} : p[1] = "/"}

\* regular expressions: a sequence of literal characters and groups "(.*)" or "(?P<name>.*)"
Lit(c) == [k |-> "lit", v |-> c]
NamedGroup(name) == [k |-> "named", v |-> name]
UnnamedGroup == [k |-> "unnamed", v |-> None]

\* the route strings an application registers: "/h", "/h(?P<hotel_id>.*)", "/(.*)i"
HotelsRoute == <<Lit("/"), Lit("h")>>
HotelRoute == <<Lit("/"), Lit("h"), NamedGroup("hotel_id")>>
InfoRoute == <<Lit("/"), UnnamedGroup, Lit("i")>>
RouteStrings == {HotelsRoute, HotelRoute, InfoRoute}

ResourceNames == {"HotelPage", "RestaurantPage"}

NoMatch == [ok |-> FALSE, end |-> 0, groups |-> <<>>]

\* the regex engine from position i of the pattern and position j of the text:
\* literals must be equal, ".*" is greedy and backtracks, and the match succeeds
\* as soon as the pattern is used up, wherever the text ends
RECURSIVE MatchAt(_, _, _, _)
RECURSIVE MatchGroup(_, _, _, _, _)
MatchAt(pattern, i, text, j) ==
    IF i > Len(pattern)
    THEN [ok |-> TRUE, end |-> j - 1, groups |-> <<>>]
    ELSE IF pattern[i].k = "lit"
         THEN IF j <= Len(text) /\ text[j] = pattern[i].v
              THEN MatchAt(pattern, i + 1, text, j + 1)
              ELSE NoMatch
         ELSE MatchGroup(pattern, i, text, j, Len(text) - j + 1)

MatchGroup(pattern, i, text, j, len) ==
    IF len < 0
    THEN NoMatch
    ELSE LET rest == MatchAt(pattern, i + 1, text, j + len) IN
         IF rest.ok
         THEN [ok |-> TRUE, end |-> rest.end,
               groups |-> <<[name |-> pattern[i].v, text |-> SubSeq(text, j, j + len - 1)]>>
                          \o rest.groups]
         ELSE MatchGroup(pattern, i, text, j, len - 1)

\* re.compile(pattern).match(text), route_site.py:51 and path_site.py:45
ReMatch(pattern, text) == MatchAt(pattern, 1, text, 1)

\* match.groupdict(): the named groups
GroupDict(m) == SelectSeq(m.groups, LAMBDA g : g.name # None)

\* match.groups(): all groups, without names
Groups(m) == [i \in 1 .. Len(m.groups) |-> [name |-> None, text |-> m.groups[i].text]]

\* route_site.py:53: match.groupdict() or match.groups()
PathArgsAlwaysGroups(m) == [t |-> "tuple", v |-> Groups(m)]
PathArgs(m) ==
    IF GroupDict(m) # <<>>
    THEN [t |-> "dict", v |-> GroupDict(m)]
    ELSE [t |-> "tuple", v |-> Groups(m)]

\* path_site.py:47-48: kwargs = match.groupdict(); args = match.groups() if not kwargs else []
CtorArgs(m) ==
    IF GroupDict(m) # <<>>
    THEN [t |-> "kwargs", v |-> GroupDict(m)]
    ELSE [t |-> "args", v |-> Groups(m)]

\* self.routes[route_re] = resource: a new key goes to the end, a known key keeps its place
DictSet(dict, key, value) ==
    IF \E i \in 1 .. Len(dict) : dict[i].key = key
    THEN [i \in 1 .. Len(dict) |-> IF dict[i].key = key
                                   THEN [key |-> key, value |-> value]
                                   ELSE dict[i]]
    ELSE Append(dict, [key |-> key, value |-> value])

\* the entries whose pattern matches the request path
Hits(dict, text) == {i \in 1 .. Len(dict) : ReMatch(dict[i].key, text).ok}

\* the entry at which the loop over dict.items() can return, 0 when it runs to
\* its end: items() iterates in insertion order on Python 3 (3.6 and later) and
\* in arbitrary order on Python 2.7
FirstHits(dict, text) ==
    IF Hits(dict, text) = {}
    THEN {0}
    ELSE IF python = "3"
         THEN {CHOOSE i \in Hits(dict, text) : \A j \in Hits(dict, text) : i <= j}
         ELSE Hits(dict, text)

\* the children of the root resource the site was constructed with
RootChildren == {<<"/", "i">>}

\* twisted.web.server.Site.getResourceFor
DefaultLookup(text) == IF text \in RootChildren THEN "RootChild" ELSE "NoResource"

RsInit ==
    /\ python \in Pythons
    /\ siteClass \in {"RouteSite", "PathSite"}
    /\ routes = <<>>
    /\ paths = <<>>
    /\ lookup = NoLookup
    /\ LdlIdle
    /\ WsIdle
    /\ PmIdle
    /\ JsIdle

\* RouteSite.addRoute, route_site.py:38-39
AddRoute ==
    /\ siteClass = "RouteSite"
    /\ \E route \in RouteStrings, resource \in ResourceNames :
        routes' = DictSet(routes, route, resource)
    /\ UNCHANGED <<python, siteClass, paths, lookup>>
    /\ UNCHANGED notRs

\* RouteSite.getResourceFor, route_site.py:48-56
RouteGetResourceFor ==
    /\ siteClass = "RouteSite"
    /\ \E text \in RequestPaths : \E hit \in FirstHits(routes, text) :
        lookup' = IF hit # 0
                  THEN [path |-> text,
                        path_args |-> PathArgs(ReMatch(routes[hit].key, text)),
                        resource |-> routes[hit].value,
                        route |-> routes[hit].key,
                        exc |-> None]
                  ELSE [path |-> text, path_args |-> Unset,
                        resource |-> DefaultLookup(text), route |-> <<>>, exc |-> None]
    /\ UNCHANGED <<python, siteClass, routes, paths>>
    /\ UNCHANGED notRs

\* PathSite.addPath, path_site.py:35-36
AddPath ==
    /\ siteClass = "PathSite"
    /\ \E path \in RouteStrings, resource_class \in ResourceNames :
        paths' = DictSet(paths, path, resource_class)
    /\ UNCHANGED <<python, siteClass, routes, lookup>>
    /\ UNCHANGED notRs

\* PathSite.getResourceFor, path_site.py:44-51; request.path is bytes, and on
\* Python 3 matching a str pattern against bytes raises TypeError
PathGetResourceFor ==
    /\ siteClass = "PathSite"
    /\ \E text \in RequestPaths : \E hit \in FirstHits(paths, text) :
        lookup' = IF python = "3" /\ paths # <<>>
                  THEN [path |-> text, path_args |-> Unset, resource |-> None,
                        route |-> <<>>, exc |-> "TypeError"]
                  ELSE IF hit # 0
                       THEN [path |-> text,
                             path_args |-> CtorArgs(ReMatch(paths[hit].key, text)),
                             resource |-> paths[hit].value,
                             route |-> paths[hit].key,
                             exc |-> None]
                       ELSE [path |-> text, path_args |-> Unset,
                             resource |-> DefaultLookup(text), route |-> <<>>, exc |-> None]
    /\ UNCHANGED <<python, siteClass, routes, paths>>
    /\ UNCHANGED notRs

RsNext ==
    \/ AddRoute
    \/ RouteGetResourceFor
    \/ AddPath
    \/ PathGetResourceFor

RsSpec == RsInit /\ [][RsNext]_vars

\* ---------------------------------------------------------------- claim C23
\* a getResourceFor call of the RouteSite has just returned
RouteLookedUp == siteClass = "RouteSite" /\ lookup' # lookup

NamedOf(groups) == SelectSeq(groups, LAMBDA g : g.name # None)
TextsOf(groups) == [i \in 1 .. Len(groups) |-> groups[i].text]

\* C23: RouteSite.getResourceFor returns, for a request path that a route
\* matches, the resource registered for a matching route and stores that
\* route's named groups as a dict, or else its groups as a tuple, in
\* request.path_args; when no route matches it returns the result of the
\* default lookup on the root resource and leaves path_args unset.
C23_RouteLookup ==
    [][RouteLookedUp =>
        LET text == lookup'.path
            matching == {i \in 1 .. Len(routes) : MatchAt(routes[i].key, 1, text, 1).ok}
        IN  IF matching # {}
            THEN \E i \in matching :
                    LET groups == MatchAt(routes[i].key, 1, text, 1).groups IN
                    /\ lookup'.resource = routes[i].value
                    /\ lookup'.route = routes[i].key
                    /\ IF NamedOf(groups) # <<>>
                       THEN /\ lookup'.path_args.t = "dict"
                            /\ lookup'.path_args.v = NamedOf(groups)
                       ELSE /\ lookup'.path_args.t = "tuple"
                            /\ TextsOf(lookup'.path_args.v) = TextsOf(groups)
            ELSE /\ lookup'.resource = DefaultLookup(text)
                 /\ lookup'.path_args = Unset
    ]_vars

\* "/hi" looked up on a site whose only route is "/h(?P<hotel_id>.*)"
C23_Witness ==
    /\ siteClass = "RouteSite"
    /\ routes = <<[key |-> HotelRoute, value |-> "HotelPage"]>>
    /\ lookup.path = <<"/", "h", "i">>
    /\ lookup.resource = "HotelPage"
    /\ lookup.path_args = [t |-> "dict", v |-> <<[name |-> "hotel_id", text |-> <<"i">>]>>]

\* ---------------------------------------------------------------- claim C24
\* C24: a route or path handles a request only when its regular expression
\* matches the entire request path.
C24_EntirePathMatched ==
    lookup.route # <<>> =>
        LET m == MatchAt(lookup.route, 1, lookup.path, 1) IN
        m.ok /\ m.end = Len(lookup.path)

\* ---------------------------------------------------------------- claim C30
\* a getResourceFor call of either site has just returned or raised
LookedUp == siteClass \in {"RouteSite", "PathSite"} /\ lookup' # lookup

\* the table of the site
Table == IF siteClass = "RouteSite" THEN routes ELSE paths

\* C30: for both sites, the table holds one resource per distinct pattern;
\* registering a pattern again keeps its position and replaces its resource,
\* a new pattern goes to the end; and getResourceFor returns the resource of
\* the earliest-registered entry whose regex matches the path.
C30_EarliestRouteWins ==
    [][ /\ \A i, j \in 1 .. Len(Table') : i # j => Table'[i].key # Table'[j].key
        /\ Table' # Table =>
              \/ /\ Len(Table') = Len(Table) + 1
                 /\ SubSeq(Table', 1, Len(Table)) = Table
              \/ /\ Len(Table') = Len(Table)
                 /\ \A i \in 1 .. Len(Table) : Table'[i].key = Table[i].key
        /\ LookedUp =>
              LET matching == {i \in 1 .. Len(Table) :
                                  MatchAt(Table[i].key, 1, lookup'.path, 1).ok}
              IN  matching # {} =>
                      \E i \in matching :
                          /\ \A j \in matching : i <= j
                          /\ lookup'.resource = Table[i].value
    ]_vars

\* ---------------------------------------------------------------- claim C25
\* the requests created by request_factory whose notifyFinish has not fired
Unfinished == {r \in Requests : reqState[r] = "running"}

\* C25: running_reqs is in every state exactly the set of the ids of the
\* requests that request_factory created and whose notifyFinish has not fired,
\* one entry per such request, and remove_req never misses its entry.
C25_TracksUnfinishedRequests ==
    /\ running_reqs = {reqHash[r] : r \in Unfinished}
    /\ Cardinality(running_reqs) = Cardinality(Unfinished)
    /\ removeErrors = 0

\* one request has finished and been removed while another is still tracked
C25_Witness ==
    \E r, q \in Requests :
        /\ reqState[r] = "finished"
        /\ reqState[q] = "running"
        /\ running_reqs = {reqHash[q]}
        /\ removeErrors = 0

\* ---------------------------------------------------------------- claim C27
\* C27: timeout_deferred.callback is invoked at most once, in every
\* interleaving of kill_timeout and kill_if_requests_done.
C27_TimeoutCallbackOnce == timeout_calls <= 1

\* ---------------------------------------------------------------- claim C26
\* C26: when the connection is lost before json_def has fired, json_def is
\* cancelled, nothing is written to the request and request.finish is not
\* called; when the response was sent and the request finished before the
\* connection closed, on_connection_closed does not run and json_def is not
\* cancelled.
C26_CancelledWithoutResponse ==
    /\ jsPc = "cancelled" =>
          /\ cancelCalls = 1
          /\ request.written = <<>>
          /\ request.finished = 0
    /\ jsPc = "closed" =>
          /\ closedRuns = 0
          /\ cancelCalls = 0

\* ---------------------------------------------------------------- claim C28
\* C28: when the processing of a rendered request has ended in anything other
\* than a connection error (the handler returned a value, raised, its Deferred
\* fired or failed, parameter parsing failed, the JSONP callback was invalid),
\* request.finish() has been called exactly once.
C28_FinishedExactlyOnce ==
    /\ jsPc \in {"done", "fired", "closed", "cancelled"}
    /\ handled.type \notin {"CancelledError", "ConnectError", "ConnectionDone", "ConnectionLost"}
    => request.finished = 1

\* a handler's Deferred failed with a 404 for a request with an invalid callback
C28_Witness ==
    /\ jsPc = "fired"
    /\ handled = Error(404, "not found")
    /\ OneCallback
    /\ TheCallback = Bytes(<<"(">>)
    /\ request.written = <<JsonChunk(Doc("Invalid callback"))>>
    /\ request.finished = 1

\* ---------------------------------------------------------------- claim C29
\* C29: for a request with exactly one valid JSONP callback argument the
\* response code is never set: every response, the 4xx and 5xx answers of
\* send_error included, leaves the request's default status code 200.
C29_JsonpKeepsDefaultCode ==
    OneCallback /\ JsonpCallbackMatch(TheCallback.v) => request.code = 200

\* a server error answered for a request with the valid callback "a"
C29_Witness ==
    /\ Answered
    /\ OneCallback
    /\ TheCallback = Bytes(<<"a">>)
    /\ handled.type = "TypeError"
    /\ request.written = <<OpenChunk(TheCallback), JsonChunk(Doc("Server-side error")), CloseChunk>>
    /\ request.finished = 1
    /\ request.code = 200

====
